---------------------------- MODULE Spec2Model ----------------------------
(***************************************************************************)
(* A model of the CHIP-8 interpreter of src/src/vm.rs: the machine state   *)
(* of struct VM, the driver-facing operations load_rom, decode (one        *)
(* fetch-decode-execute step), tick_timers and set_key, and every          *)
(* instruction handler decode dispatches to.                               *)
(*                                                                         *)
(* A Rust panic ends the run: it is recorded in the variable panic, with   *)
(* the machine left as the handler had it when the panic was raised, and   *)
(* no operation is taken afterwards.  Integer overflow of +, - on u8, u16  *)
(* and usize panics when the build has overflow checks (cargo's dev        *)
(* profile) and wraps when it has not (the release profile); the variable  *)
(* overflow_checks holds the build's choice, made once in Init.            *)
(***************************************************************************)
EXTENDS Integers, Sequences, FiniteSets, TLC

VARIABLES
    ram,              \* [u8; 4096]
    registers,        \* [u8; 16]
    i,                \* u16
    dt,               \* u8
    st,               \* u8
    pc,               \* u16
    sp,               \* usize; usize::MAX is written -1 (its two's complement reading)
    stack,            \* [u16; 16]
    display,          \* Screen.pixels: [[bool; 64]; 32], display[y][x]
    keys,             \* [bool; 16]
    panic,            \* "none", or the kind of the panic that ended the run
    overflow_checks,  \* whether the build panics on integer overflow
    phase,            \* the driver's position: "constructed" or "running"
    draw_flag,        \* the draw_flag of display.rs's Screen, the renderer's
    loaded,           \* the rom the last load_rom was given (<<>>: none yet)
    instruction,      \* the opcode the last decode fetched (-1: none yet)
    prev              \* the registers, timers and stack as the last decode found them

vars == <<ram, registers, i, dt, st, pc, sp, stack, display, keys, panic,
          overflow_checks, phase, draw_flag, loaded, instruction, prev>>

SCREEN_WIDTH == 64
SCREEN_HEIGHT == 32
RAM_SIZE == 4096
ROM_START == \H200

SPRITES ==
    << \HF0, \H90, \H90, \H90, \HF0,
       \H20, \H60, \H20, \H20, \H70,
       \HF0, \H10, \HF0, \H80, \HF0,
       \HF0, \H10, \HF0, \H10, \HF0,
       \H90, \H90, \HF0, \H10, \H10,
       \HF0, \H80, \HF0, \H10, \HF0,
       \HF0, \H80, \HF0, \H90, \HF0,
       \HF0, \H10, \H20, \H40, \H40,
       \HF0, \H90, \HF0, \H90, \HF0,
       \HF0, \H90, \HF0, \H10, \HF0,
       \HF0, \H90, \HF0, \H90, \H90,
       \HE0, \H90, \HE0, \H90, \HE0,
       \HF0, \H80, \H80, \H80, \HF0,
       \HE0, \H90, \H90, \H90, \HE0,
       \HF0, \H80, \HF0, \H80, \HF0,
       \HF0, \H80, \HF0, \H80, \H80 >>

-----------------------------------------------------------------------------
(* Bitwise operators on u8/u16 values.                                     *)

RECURSIVE BitAnd(_, _)
BitAnd(a, b) ==
    IF a = 0 \/ b = 0 THEN 0
    ELSE (a % 2) * (b % 2) + 2 * BitAnd(a \div 2, b \div 2)

RECURSIVE BitOr(_, _)
BitOr(a, b) ==
    IF a = 0 THEN b
    ELSE IF b = 0 THEN a
    ELSE (IF a % 2 = 1 \/ b % 2 = 1 THEN 1 ELSE 0) + 2 * BitOr(a \div 2, b \div 2)

RECURSIVE BitXor(_, _)
BitXor(a, b) ==
    IF a = 0 THEN b
    ELSE IF b = 0 THEN a
    ELSE ((a + b) % 2) + 2 * BitXor(a \div 2, b \div 2)

\* v >> n
Shr(v, n) == v \div (2 ^ n)

-----------------------------------------------------------------------------
(* The machine as one record, the form the handlers below work on.         *)

Machine ==
    [ram |-> ram, registers |-> registers, i |-> i, dt |-> dt, st |-> st,
     pc |-> pc, sp |-> sp, stack |-> stack, display |-> display, keys |-> keys,
     panic |-> panic]

\* A panic of the given kind, raised with the machine as it is in m.
Panic(m, kind) == [m EXCEPT !.panic = kind]

\* Screen::new
ScreenNew == [y \in 0..(SCREEN_HEIGHT - 1) |-> [x \in 0..(SCREEN_WIDTH - 1) |-> FALSE]]

\* VM::new
VMNew ==
    [ram |-> [a \in 0..(RAM_SIZE - 1) |-> IF a < Len(SPRITES) THEN SPRITES[a + 1] ELSE 0],
     registers |-> [r \in 0..15 |-> 0],
     i |-> 0, dt |-> 0, st |-> 0,
     pc |-> \H200,
     sp |-> 0,
     stack |-> [s \in 0..15 |-> 0],
     display |-> ScreenNew,
     keys |-> [k \in 0..15 |-> FALSE],
     panic |-> "none"]

\* load_rom that copies the bytes that fit and drops the rest
load_rom_truncating(m, rom) ==
    LET len == IF ROM_START + Len(rom) > RAM_SIZE THEN RAM_SIZE - ROM_START
               ELSE Len(rom)
    IN  [m EXCEPT !.ram = [a \in ROM_START..(ROM_START + len - 1) |->
                              rom[a - ROM_START + 1]] @@ m.ram]

\* load_rom that ends the bytes it copies with a zero byte
load_rom_terminating(m, rom) ==
    LET len == Len(rom) IN
    IF ROM_START + len > RAM_SIZE THEN Panic(m, "index")
    ELSE [m EXCEPT !.ram = [a \in ROM_START..(ROM_START + len - 1) |->
                               rom[a - ROM_START + 1]]
                           @@ [a \in {ROM_START + len} \cap (0..(RAM_SIZE - 1)) |-> 0]
                           @@ m.ram]

\* VM::load_rom: rom is a sequence of bytes
load_rom(m, rom) ==
    LET len == Len(rom) IN
    IF ROM_START + len > RAM_SIZE THEN Panic(m, "index")
    ELSE [m EXCEPT !.ram = [a \in ROM_START..(ROM_START + len - 1) |->
                               rom[a - ROM_START + 1]] @@ m.ram]

\* VM::tick_timers
tick_timers(m) ==
    LET m1 == IF m.dt > 0 THEN [m EXCEPT !.dt = m.dt - 1] ELSE m
    IN  IF m1.dt > 0 THEN [m1 EXCEPT !.dt = m1.dt - 1] ELSE m1

\* VM::set_key
set_key(m, idx, pressed) ==
    IF idx > 15 THEN Panic(m, "index")
    ELSE [m EXCEPT !.keys[idx] = pressed]

-----------------------------------------------------------------------------
(* Checked arithmetic.  A u16 += that leaves the type's range panics under *)
(* overflow checks and wraps otherwise.                                    *)

\* self.pc += k / self.pc -= k on the u16 pc
pc_add(m, k) ==
    LET v == m.pc + k IN
    IF (v > 65535 \/ v < 0) /\ overflow_checks THEN Panic(m, "overflow")
    ELSE [m EXCEPT !.pc = v % 65536]

\* The flag stores of the 8xy4, 8xy5 and 8xy7 handlers: VF = 1 if flag, else 0
set_vf(m, flag) == [m EXCEPT !.registers[15] = IF flag THEN 1 ELSE 0]

-----------------------------------------------------------------------------
(* The instruction handlers.  Each takes the machine after the fetch (pc   *)
(* already advanced by 2) and yields the machine after the handler.        *)

\* cls that leaves the pixels as they are
cls_keeping_pixels(m) == m

\* 00E0
cls(m) == [m EXCEPT !.display = ScreenNew]

\* ret that lowers sp before it reads the stack
ret_decrement_first(m) ==
    IF m.sp = 0
    THEN IF overflow_checks THEN Panic(m, "overflow")
         ELSE Panic([m EXCEPT !.sp = -1], "index")
    ELSE IF m.sp < 0 \/ m.sp - 1 > 15 THEN Panic(m, "index")
    ELSE [m EXCEPT !.sp = m.sp - 1, !.pc = m.stack[m.sp - 1]]

\* 00EE: self.pc = self.stack[self.sp]; self.sp -= 1;
ret(m) ==
    IF m.sp < 0 \/ m.sp > 15 THEN Panic(m, "index")
    ELSE LET m1 == [m EXCEPT !.pc = m.stack[m.sp]] IN
         IF m1.sp = 0
         THEN IF overflow_checks THEN Panic(m1, "overflow")
              ELSE [m1 EXCEPT !.sp = -1]
         ELSE [m1 EXCEPT !.sp = m1.sp - 1]

\* 1nnn
jp(m, nnn) == [m EXCEPT !.pc = nnn]

\* 0nnn
sys(m, nnn) == jp(m, nnn)

\* 2nnn: self.sp += 1; self.stack[self.sp] = self.pc; self.pc = nnn;
call(m, nnn) ==
    IF m.sp = -1 /\ overflow_checks THEN Panic(m, "overflow")
    ELSE LET m1 == [m EXCEPT !.sp = m.sp + 1] IN
         IF m1.sp > 15 THEN Panic(m1, "index")
         ELSE [m1 EXCEPT !.stack[m1.sp] = m1.pc, !.pc = nnn]

\* 3xkk
se_vx_kk(m, x, kk) == IF m.registers[x] = kk THEN pc_add(m, 2) ELSE m

\* 4xkk
sne_vx_kk(m, x, kk) == IF m.registers[x] # kk THEN pc_add(m, 2) ELSE m

\* 5xy0
se_vx_vy(m, x, y) == IF m.registers[x] = m.registers[y] THEN pc_add(m, 2) ELSE m

\* 6xkk
ld_vx_kk(m, x, kk) == [m EXCEPT !.registers[x] = kk]

\* 7xkk: self.registers[x] += kk
add_vx_kk(m, x, kk) ==
    LET sum == m.registers[x] + kk IN
    IF sum > 255 /\ overflow_checks THEN Panic(m, "overflow")
    ELSE [m EXCEPT !.registers[x] = sum % 256]

\* 8xy0
ld_vx_vy(m, x, y) == [m EXCEPT !.registers[x] = m.registers[y]]

\* 8xy1
or_vx_vy(m, x, y) == [m EXCEPT !.registers[x] = BitOr(m.registers[x], m.registers[y])]

\* 8xy2
and_vx_vy(m, x, y) == [m EXCEPT !.registers[x] = BitAnd(m.registers[x], m.registers[y])]

\* 8xy3
xor_vx_vy(m, x, y) == [m EXCEPT !.registers[x] = BitXor(m.registers[x], m.registers[y])]

\* 8xy4: the sum is formed in u8 and only then widened to usize
add_vx_vy(m, x, y) ==
    LET sum == m.registers[x] + m.registers[y] IN
    IF sum > 255 /\ overflow_checks THEN Panic(m, "overflow")
    ELSE LET result == sum % 256
             m1 == [m EXCEPT !.registers[x] = result % 256]
         IN  set_vf(m1, result > 255)

\* 8xy5: the flag is taken first, then self.registers[x] -= self.registers[y]
sub_vx_vy(m, x, y) ==
    LET flag == m.registers[x] > m.registers[y]
        diff == m.registers[x] - m.registers[y]
    IN  IF diff < 0 /\ overflow_checks THEN Panic(m, "overflow")
        ELSE set_vf([m EXCEPT !.registers[x] = diff % 256], flag)

\* 8xy6: VF is stored first, then Vx is shifted
shr_vx_vy(m, x, y) ==
    LET lsb == BitAnd(m.registers[x], 1)
        m1 == [m EXCEPT !.registers[15] = lsb]
    IN  [m1 EXCEPT !.registers[x] = Shr(m1.registers[x], 1)]

\* 8xy7
subn_vx_vy(m, x, y) ==
    LET flag == m.registers[y] > m.registers[x]
        diff == m.registers[y] - m.registers[x]
    IN  IF diff < 0 /\ overflow_checks THEN Panic(m, "overflow")
        ELSE set_vf([m EXCEPT !.registers[x] = diff % 256], flag)

\* 8xyE: VF is stored first, then Vx is shifted (a u8 << 1 drops the top bit)
shl_vx_vy(m, x, y) ==
    LET msb == BitAnd(Shr(m.registers[x], 7), 1)
        m1 == [m EXCEPT !.registers[15] = msb]
    IN  [m1 EXCEPT !.registers[x] = (m1.registers[x] * 2) % 256]

\* 9xy0
sne_vx_vy(m, x, y) == IF m.registers[x] # m.registers[y] THEN pc_add(m, 2) ELSE m

\* Annn
ld_i_addr(m, nnn) == [m EXCEPT !.i = nnn]

\* Bnnn
jp_v0_addr(m, nnn) ==
    LET v == nnn + m.registers[0] IN
    IF v > 65535 /\ overflow_checks THEN Panic(m, "overflow")
    ELSE [m EXCEPT !.pc = v % 65536]

\* Cxkk: rng is the byte rand::random() returned
rnd_vx_kk(m, x, kk, rng) == [m EXCEPT !.registers[x] = BitAnd(rng, kk)]

\* drw_loop with a VF that follows the last sprite bit drawn
RECURSIVE drw_loop_flag_of_last_bit(_, _, _, _, _)
drw_loop_flag_of_last_bit(m, x_pos, y_pos, n, k) ==
    IF k >= 8 * n THEN m
    ELSE LET byte_index == k \div 8
             bit_index == k % 8
             addr == m.i + byte_index
         IN  IF addr > 65535 /\ overflow_checks THEN Panic(m, "overflow")
             ELSE IF addr % 65536 >= RAM_SIZE THEN Panic(m, "index")
             ELSE LET sprite_byte == m.ram[addr % 65536]
                      sprite_pixel == BitAnd(Shr(sprite_byte, 7 - bit_index), 1)
                      x_coord == (x_pos + bit_index) % SCREEN_WIDTH
                      y_coord == (y_pos + byte_index) % SCREEN_HEIGHT
                  IN  IF sprite_pixel = 1
                      THEN drw_loop_flag_of_last_bit(
                             [m EXCEPT !.registers[15] =
                                           IF m.display[y_coord][x_coord] THEN 1 ELSE 0,
                                       !.display[y_coord][x_coord] = ~@],
                             x_pos, y_pos, n, k + 1)
                      ELSE drw_loop_flag_of_last_bit(m, x_pos, y_pos, n, k + 1)

\* drw_loop that sets the pixels of the sprite instead of toggling them
RECURSIVE drw_loop_setting_pixels(_, _, _, _, _)
drw_loop_setting_pixels(m, x_pos, y_pos, n, k) ==
    IF k >= 8 * n THEN m
    ELSE LET byte_index == k \div 8
             bit_index == k % 8
             addr == m.i + byte_index
         IN  IF addr > 65535 /\ overflow_checks THEN Panic(m, "overflow")
             ELSE IF addr % 65536 >= RAM_SIZE THEN Panic(m, "index")
             ELSE LET sprite_byte == m.ram[addr % 65536]
                      sprite_pixel == BitAnd(Shr(sprite_byte, 7 - bit_index), 1)
                      x_coord == (x_pos + bit_index) % SCREEN_WIDTH
                      y_coord == (y_pos + byte_index) % SCREEN_HEIGHT
                  IN  IF sprite_pixel = 1
                      THEN drw_loop_setting_pixels(
                             [m EXCEPT !.registers[15] =
                                           IF m.display[y_coord][x_coord] THEN 1 ELSE @,
                                       !.display[y_coord][x_coord] = TRUE],
                             x_pos, y_pos, n, k + 1)
                      ELSE drw_loop_setting_pixels(m, x_pos, y_pos, n, k + 1)

\* drw_loop that drops the pixels that fall off the right or the bottom edge
RECURSIVE drw_loop_clipping(_, _, _, _, _)
drw_loop_clipping(m, x_pos, y_pos, n, k) ==
    IF k >= 8 * n THEN m
    ELSE LET byte_index == k \div 8
             bit_index == k % 8
             addr == m.i + byte_index
         IN  IF addr > 65535 /\ overflow_checks THEN Panic(m, "overflow")
             ELSE IF addr % 65536 >= RAM_SIZE THEN Panic(m, "index")
             ELSE LET sprite_byte == m.ram[addr % 65536]
                      sprite_pixel == BitAnd(Shr(sprite_byte, 7 - bit_index), 1)
                      x_coord == x_pos + bit_index
                      y_coord == y_pos + byte_index
                  IN  IF sprite_pixel = 1 /\ x_coord < SCREEN_WIDTH
                                         /\ y_coord < SCREEN_HEIGHT
                      THEN drw_loop_clipping(
                             [m EXCEPT !.registers[15] =
                                           IF m.display[y_coord][x_coord] THEN 1 ELSE @,
                                       !.display[y_coord][x_coord] = ~@],
                             x_pos, y_pos, n, k + 1)
                      ELSE drw_loop_clipping(m, x_pos, y_pos, n, k + 1)

\* Dxyn, the two nested loops from their k-th iteration on
\* (k = 8 * byte_index + bit_index)
RECURSIVE drw_loop(_, _, _, _, _)
drw_loop(m, x_pos, y_pos, n, k) ==
    IF k >= 8 * n THEN m
    ELSE LET byte_index == k \div 8
             bit_index == k % 8
             addr == m.i + byte_index
         IN  IF addr > 65535 /\ overflow_checks THEN Panic(m, "overflow")
             ELSE IF addr % 65536 >= RAM_SIZE THEN Panic(m, "index")
             ELSE LET sprite_byte == m.ram[addr % 65536]
                      sprite_pixel == BitAnd(Shr(sprite_byte, 7 - bit_index), 1)
                      x_coord == (x_pos + bit_index) % SCREEN_WIDTH
                      y_coord == (y_pos + byte_index) % SCREEN_HEIGHT
                  IN  IF sprite_pixel = 1
                      THEN drw_loop(
                             [m EXCEPT !.registers[15] =
                                           IF m.display[y_coord][x_coord] THEN 1 ELSE @,
                                       !.display[y_coord][x_coord] = ~@],
                             x_pos, y_pos, n, k + 1)
                      ELSE drw_loop(m, x_pos, y_pos, n, k + 1)

\* Dxyn: VF is reset before Vx and Vy are read
drw_vx_vy_n(m, x, y, n) ==
    LET m1 == [m EXCEPT !.registers[15] = 0]
        x_pos == m1.registers[x] % SCREEN_WIDTH
        y_pos == m1.registers[y] % SCREEN_HEIGHT
    IN  drw_loop(m1, x_pos, y_pos, n, 0)

\* Ex9E
skp_vx(m, x) ==
    LET vx == m.registers[x] IN
    IF vx > 15 THEN Panic(m, "index")
    ELSE IF m.keys[vx] THEN pc_add(m, 2) ELSE m

\* ExA1
sknp_vx(m, x) ==
    LET vx == m.registers[x] IN
    IF vx > 15 THEN Panic(m, "index")
    ELSE IF ~m.keys[vx] THEN pc_add(m, 2) ELSE m

\* Fx07
ld_vx_dt(m, x) == [m EXCEPT !.registers[x] = m.dt]

\* ld_vx_k that scans the keys from 0xF downward
ld_vx_k_scanning_downward(m, x) ==
    LET down == {k \in 0..15 : m.keys[k]} IN
    IF down # {}
    THEN [m EXCEPT !.registers[x] = CHOOSE k \in down : \A j \in down : k >= j]
    ELSE pc_add(m, -2)

\* ld_vx_k that takes a key only while no lower key is up
ld_vx_k_needing_key_zero(m, x) ==
    IF m.keys[0] THEN [m EXCEPT !.registers[x] = 0] ELSE pc_add(m, -2)

\* ld_vx_k that goes on to the next instruction when no key is pressed
ld_vx_k_without_rewind(m, x) ==
    LET down == {k \in 0..15 : m.keys[k]} IN
    IF down # {}
    THEN [m EXCEPT !.registers[x] = CHOOSE k \in down : \A j \in down : k <= j]
    ELSE m

\* Fx0A: the first pressed key in index order, or the pc rewound by 2
ld_vx_k(m, x) ==
    LET down == {k \in 0..15 : m.keys[k]} IN
    IF down # {}
    THEN LET pressed_index == CHOOSE k \in down : \A j \in down : k <= j
         IN  [m EXCEPT !.registers[x] = pressed_index]
    ELSE pc_add(m, -2)

\* Fx15
ld_dt_vx(m, x) == [m EXCEPT !.dt = m.registers[x]]

\* Fx18
ld_st_vx(m, x) == [m EXCEPT !.st = m.registers[x]]

\* Fx1E: self.i += Vx on the u16 i
add_i_vx(m, x) ==
    LET v == m.i + m.registers[x] IN
    IF v > 65535 /\ overflow_checks THEN Panic(m, "overflow")
    ELSE [m EXCEPT !.i = v % 65536]

\* Fx29: self.i = self.ram[digit * 5] as u16
ld_f_vx(m, x) ==
    LET digit == m.registers[x] IN
    [m EXCEPT !.i = m.ram[digit * 5]]

\* ld_b_vx with a tens digit that is not reduced modulo 10
ld_b_vx_tens_unreduced(m, x) ==
    LET vx == m.registers[x]
        a == m.i
    IN  IF a + 2 >= RAM_SIZE THEN Panic(m, "index")
        ELSE [m EXCEPT !.ram[a] = vx \div 100,
                       !.ram[a + 1] = vx \div 10,
                       !.ram[a + 2] = vx % 10]

\* Fx33: three stores in turn, each bounds-checked
ld_b_vx(m, x) ==
    LET vx == m.registers[x]
        hundreds == vx \div 100
        tens == (vx \div 10) % 10
        ones == vx % 10
        a == m.i
    IN  IF a >= RAM_SIZE THEN Panic(m, "index")
        ELSE LET m1 == [m EXCEPT !.ram[a] = hundreds] IN
             IF a + 1 >= RAM_SIZE THEN Panic(m1, "index")
             ELSE LET m2 == [m1 EXCEPT !.ram[a + 1] = tens] IN
                  IF a + 2 >= RAM_SIZE THEN Panic(m2, "index")
                  ELSE [m2 EXCEPT !.ram[a + 2] = ones]

\* Fx55, the loop `for idx in 0..x` from idx on
RECURSIVE ld_i_vx_loop(_, _, _)
ld_i_vx_loop(m, x, idx) ==
    IF idx >= x THEN m
    ELSE IF m.i + idx >= RAM_SIZE THEN Panic(m, "index")
    ELSE ld_i_vx_loop([m EXCEPT !.ram[m.i + idx] = m.registers[idx]], x, idx + 1)

\* Fx55
ld_i_vx(m, x) == ld_i_vx_loop(m, x, 0)

\* Fx65, the loop `for idx in 0..=x` from idx on: the source is
\* self.registers[i + idx]
RECURSIVE ld_vx_i_loop(_, _, _)
ld_vx_i_loop(m, x, idx) ==
    IF idx > x THEN m
    ELSE IF m.i + idx > 15 THEN Panic(m, "index")
    ELSE ld_vx_i_loop([m EXCEPT !.registers[idx] = m.registers[m.i + idx]], x, idx + 1)

\* Fx65
ld_vx_i(m, x) == ld_vx_i_loop(m, x, 0)

-----------------------------------------------------------------------------
(* VM::decode: the fetch, the advance of pc, and the dispatch.             *)

\* The opcode at pc, (hi << 8) | lo; -1 when the fetch itself is out of ram
fetch(m) ==
    IF m.pc + 1 >= RAM_SIZE THEN -1
    ELSE m.ram[m.pc] * 256 + m.ram[m.pc + 1]

\* The match of decode on the nibbles of the opcode
execute(m, op, rng) ==
    LET n1 == op \div 4096
        nnn == op % 4096
        n2 == (op \div 256) % 16
        n3 == (op \div 16) % 16
        n4 == op % 16
        kk == op % 256
    IN  CASE n1 = 0 /\ nnn = \H0E0 -> cls(m)
          [] n1 = 0 /\ nnn = \H0EE -> ret(m)
          [] n1 = 0 /\ nnn \notin {\H0E0, \H0EE} -> sys(m, nnn)
          [] n1 = 1 -> jp(m, nnn)
          [] n1 = 2 -> call(m, nnn)
          [] n1 = 3 -> se_vx_kk(m, n2, kk)
          [] n1 = 4 -> sne_vx_kk(m, n2, kk)
          [] n1 = 5 /\ n4 = 0 -> se_vx_vy(m, n2, n3)
          [] n1 = 6 -> ld_vx_kk(m, n2, kk)
          [] n1 = 7 -> add_vx_kk(m, n2, kk)
          [] n1 = 8 /\ n4 = 0 -> ld_vx_vy(m, n2, n3)
          [] n1 = 8 /\ n4 = 1 -> or_vx_vy(m, n2, n3)
          [] n1 = 8 /\ n4 = 2 -> and_vx_vy(m, n2, n3)
          [] n1 = 8 /\ n4 = 3 -> xor_vx_vy(m, n2, n3)
          [] n1 = 8 /\ n4 = 4 -> add_vx_vy(m, n2, n3)
          [] n1 = 8 /\ n4 = 5 -> sub_vx_vy(m, n2, n3)
          [] n1 = 8 /\ n4 = 6 -> shr_vx_vy(m, n2, n3)
          [] n1 = 8 /\ n4 = 7 -> subn_vx_vy(m, n2, n3)
          [] n1 = 8 /\ n4 = 14 -> shl_vx_vy(m, n2, n3)
          [] n1 = 9 /\ n4 = 0 -> sne_vx_vy(m, n2, n3)
          [] n1 = 10 -> ld_i_addr(m, nnn)
          [] n1 = 11 -> jp_v0_addr(m, nnn)
          [] n1 = 12 -> rnd_vx_kk(m, n2, kk, rng)
          [] n1 = 13 -> drw_vx_vy_n(m, n2, n3, n4)
          [] n1 = 14 /\ kk = \H9E -> skp_vx(m, n2)
          [] n1 = 14 /\ kk = \HA1 -> sknp_vx(m, n2)
          [] n1 = 15 /\ kk = \H07 -> ld_vx_dt(m, n2)
          [] n1 = 15 /\ kk = \H0A -> ld_vx_k(m, n2)
          [] n1 = 15 /\ kk = \H15 -> ld_dt_vx(m, n2)
          [] n1 = 15 /\ kk = \H18 -> ld_st_vx(m, n2)
          [] n1 = 15 /\ kk = \H1E -> add_i_vx(m, n2)
          [] n1 = 15 /\ kk = \H29 -> ld_f_vx(m, n2)
          [] n1 = 15 /\ kk = \H33 -> ld_b_vx(m, n2)
          [] n1 = 15 /\ kk = \H55 -> ld_i_vx(m, n2)
          [] n1 = 15 /\ kk = \H65 -> ld_vx_i(m, n2)
          [] OTHER -> Panic(m, "unimplemented")

\* decode with the advance of pc made after the handler instead of before it
decode_advance_after(m, rng) ==
    IF m.pc >= RAM_SIZE \/ m.pc + 1 >= RAM_SIZE THEN Panic(m, "index")
    ELSE LET r == execute(m, fetch(m), rng) IN
         IF r.panic = "none" THEN pc_add(r, 2) ELSE r

\* decode with a last arm of the match that does nothing
decode_ignore_unmatched(m, rng) ==
    IF m.pc >= RAM_SIZE \/ m.pc + 1 >= RAM_SIZE THEN Panic(m, "index")
    ELSE LET r == execute(pc_add(m, 2), fetch(m), rng) IN
         IF r.panic = "unimplemented" THEN pc_add(m, 2) ELSE r

\* VM::decode: one step
decode(m, rng) ==
    IF m.pc >= RAM_SIZE \/ m.pc + 1 >= RAM_SIZE THEN Panic(m, "index")
    ELSE execute(pc_add(m, 2), fetch(m), rng)

-----------------------------------------------------------------------------
(* The inputs: the ROMs the driver may load, the bytes rand::random() may  *)
(* return, and the keys the driver may set.                                *)

\* The longest chain of nested calls a ROM makes
MaxCalls == 17

\* The largest value a ROM sets a timer to
MaxTimer == 4

\* An opcode from its nibbles, and from its first nibble, x and kk
Op(n1, n2, n3, n4) == n1 * 4096 + n2 * 256 + n3 * 16 + n4
OpKK(n1, x, kk) == n1 * 4096 + x * 256 + kk

\* The bytes of a sequence of opcodes, high byte first
RomOf(ops) ==
    [k \in 1..(2 * Len(ops)) |->
        IF k % 2 = 1 THEN ops[(k + 1) \div 2] \div 256 ELSE ops[k \div 2] % 256]

ByteVals == {0, 1, 128, 255}
RegPairs == {<<0, 1>>, <<1, 0>>, <<2, 2>>, <<0, 15>>, <<15, 0>>, <<15, 15>>}
FlagOps == {4, 5, 6}
OtherAluOps == {0, 1, 2, 3, 7, 14}
RandomBytes == {\H3C, \HFF}
KeyInputs == {1, 15}
TimerVals == 0..MaxTimer

\* The two scenarios of the specification
ScenarioRoms ==
    { <<\H60, \H05, \H61, \H03, \H80, \H14>>,
      <<\H62, \HFF, \H63, \H01, \H82, \H34>> }

\* Vx := a; Vy := b; 8xyN
AluRom(x, y, a, b, n) == RomOf(<<OpKK(6, x, a), OpKK(6, y, b), Op(8, x, y, n)>>)

AluRoms ==
    { AluRom(p[1], p[2], a, b, n) :
        p \in RegPairs, a \in ByteVals, b \in ByteVals, n \in FlagOps }
    \cup { AluRom(0, 1, a, b, n) : a \in ByteVals, b \in ByteVals, n \in OtherAluOps }

\* Vx := a; 7xkk
AddImmRoms ==
    { RomOf(<<OpKK(6, x, a), OpKK(7, x, kk)>>) :
        x \in {0, 15}, a \in ByteVals, kk \in ByteVals }

\* V0 := v; DT := V0; ST := V0; then V1 := DT for ever
TimerRoms ==
    { RomOf(<<OpKK(6, 0, v), \HF015, \HF018, \HF107, \H1206>>) : v \in TimerVals }

\* n calls, each of the address after itself
CallChain(n) == RomOf([k \in 1..n |-> \H2000 + ROM_START + 2 * k])

\* A return with no call; a call and its return; MaxCalls nested calls;
\* three nested calls and their three returns
StackRoms ==
    { RomOf(<<\H00EE>>),
      RomOf(<<\H2204, \H1202, \H00EE>>),
      CallChain(MaxCalls),
      RomOf(<<\H2204, \H1202, \H2208, \H00EE, \H220C, \H00EE, \H00EE>>) }

\* One of each remaining instruction
TourRoms ==
    { RomOf(<<\H00E0, \H6005, \H3005, \H0000, \H4005, \H5010, \H9010, \H0000,
              \HA000, \HD015, \HD015, \HC1FF, \HF11E, \HF029, \HA300, \HF033,
              \HF155, \HA001, \HF165, \H6001, \HE09E, \HE0A1, \HF20A, \HB22F,
              \H0232, \H1232>>) }

\* A ROM that fills the memory from 0x200 exactly, and one a byte longer
SizeRoms ==
    { [k \in 1..(RAM_SIZE - ROM_START) |-> k % 256],
      [k \in 1..(RAM_SIZE - ROM_START + 1) |-> k % 256] }

\* One opcode of every shape the match of decode tells apart by its last
\* nibble or by its low byte, its arms and its fall-through alike
DecodeOps ==
    { Op(n1, 1, 2, n4) : n1 \in {5, 8, 9}, n4 \in 0..15 }
        \cup { OpKK(n1, 1, kk) : n1 \in {14, 15}, kk \in 0..255 }

DecodeRoms == { RomOf(<<op>>) : op \in DecodeOps }

\* Store V0..Vx at I, overwrite V0, V1 and V2, load V0..Vx from I
StoreLoadRom(x, addr) ==
    RomOf(<<\H6011, \H6122, \H6233, \HA000 + addr, OpKK(15, x, \H55),
            \H6000, \H6100, \H6200, OpKK(15, x, \H65)>>)

StoreLoadRoms == { StoreLoadRom(x, addr) : x \in {0, 1, 2, 15}, addr \in {\H004, \H300} }

\* Point I at the glyph of the digit in V0
FontRoms == { RomOf(<<OpKK(6, 0, v), \HF029>>) : v \in {0, 1, 10, 15, 16, 255} }

\* Store the decimal digits of V3 at I
BcdRoms ==
    { RomOf(<<OpKK(6, 3, v), \HA000 + addr, \HF333>>) :
        v \in {0, 9, 10, 99, 100, 157, 255}, addr \in {\H04E, \H300, \HFFD, \HFFE} }

\* Wait for a key into V3, then go on; the same into V0 and into VF with the
\* delay timer running
KeyWaitRoms ==
    { RomOf(<<\H6A07, \HF30A, \H8A30>>) }
        \cup { RomOf(<<\H6A04, \HFA15, OpKK(15, x, \H0A), \H8A30>>) : x \in {0, 15} }

\* Draw a row of eight pixels twice at (vx, vy), through registers x and y;
\* the sprite byte 0xFF is the last opcode's high byte, at 0x20A
RowRom(x, y, vx, vy) ==
    RomOf(<<OpKK(6, x, vx), OpKK(6, y, vy), \HA20A, Op(13, x, y, 1), Op(13, x, y, 1),
            \HFF00>>)

DrawRoms ==
    { RowRom(xy[1], xy[2], v[1], v[2]) :
        xy \in {<<1, 2>>, <<15, 2>>, <<2, 15>>},
        v \in {<<0, 0>>, <<60, 0>>, <<60, 31>>, <<255, 255>>} }
    \cup
    \* glyph 7, then glyph 1 over it, then glyph 1 on clear pixels
    { RomOf(<<\HA023, \HD125, \HA005, \HD125, \H6110, \HD125>>),
    \* glyph 1, then a clear
      RomOf(<<\HA005, \HD125, \H00E0>>),
    \* no rows, five rows, no rows
      RomOf(<<\HA005, \HD120, \HD125, \HD120>>),
    \* six rows of the font across both edges, twice
      RomOf(<<\H613C, \H621E, \HA000, \HD126, \HD126>>),
    \* a sprite that runs off the end of the memory
      RomOf(<<\HAFFF, \HD122>>) }

\* Skip on the key whose index is in V0, pressed or not
SkipRoms ==
    { RomOf(<<OpKK(6, 0, v), OpKK(14, 0, low)>>) :
        v \in {1, 15, 16, 255}, low \in {\H9E, \HA1} }

\* The ROMs during whose run the renderer is called: those that clear the
\* display or draw on it
RenderedRoms == TourRoms \cup DrawRoms

\* The ROMs the driver may load over the tour ROM while it runs: none of its
\* bytes, its first two, its first four, and a ROM that does not fit
ReloadRoms ==
    { <<>>, <<\H12, \H00>>, <<\H60, \H07, \H12, \H02>>,
      [k \in 1..(RAM_SIZE - ROM_START + 1) |-> k % 256] }

Roms == ScenarioRoms \cup AluRoms \cup AddImmRoms \cup TimerRoms \cup StackRoms
            \cup DecodeRoms \cup StoreLoadRoms \cup FontRoms \cup BcdRoms
            \cup KeyWaitRoms \cup DrawRoms \cup SkipRoms
            \cup TourRoms \cup SizeRoms

-----------------------------------------------------------------------------
(* The state machine.                                                      *)

\* What prev keeps of a machine
Snapshot(m) ==
    [registers |-> m.registers, i |-> m.i, dt |-> m.dt, st |-> m.st,
     pc |-> m.pc, sp |-> m.sp, stack |-> m.stack]

\* The machine m becomes the state
Becomes(m) ==
    /\ ram' = m.ram
    /\ registers' = m.registers
    /\ i' = m.i
    /\ dt' = m.dt
    /\ st' = m.st
    /\ pc' = m.pc
    /\ sp' = m.sp
    /\ stack' = m.stack
    /\ display' = m.display
    /\ keys' = m.keys
    /\ panic' = m.panic

\* The state after VM::new, in either build
Init ==
    /\ ram = VMNew.ram
    /\ registers = VMNew.registers
    /\ i = VMNew.i
    /\ dt = VMNew.dt
    /\ st = VMNew.st
    /\ pc = VMNew.pc
    /\ sp = VMNew.sp
    /\ stack = VMNew.stack
    /\ display = VMNew.display
    /\ keys = VMNew.keys
    /\ panic = VMNew.panic
    /\ overflow_checks \in BOOLEAN
    /\ phase = "constructed"
    /\ draw_flag = TRUE
    /\ loaded = <<>>
    /\ instruction = -1
    /\ prev = Snapshot(VMNew)

\* The driver loads a ROM before it runs the machine; while the machine runs
\* the tour ROM it may load one of ReloadRoms over it
LoadRom ==
    /\ panic = "none"
    /\ \E rom \in (IF phase = "constructed" THEN Roms
                    ELSE IF loaded \in TourRoms THEN ReloadRoms ELSE {}) :
          /\ loaded' = rom
          /\ Becomes(load_rom(Machine, rom))
    /\ phase' = "running"
    /\ UNCHANGED <<overflow_checks, draw_flag, instruction, prev>>

\* The driver calls decode: one instruction
Step ==
    /\ phase = "running"
    /\ panic = "none"
    /\ \E rng \in RandomBytes : Becomes(decode(Machine, rng))
    /\ instruction' = fetch(Machine)
    /\ prev' = Snapshot(Machine)
    /\ UNCHANGED <<overflow_checks, phase, draw_flag, loaded>>

\* The driver calls tick_timers
TickTimers ==
    /\ phase = "running"
    /\ panic = "none"
    /\ Becomes(tick_timers(Machine))
    /\ UNCHANGED <<overflow_checks, phase, draw_flag, loaded, instruction, prev>>

\* The driver calls set_key
SetKey ==
    /\ phase = "running"
    /\ panic = "none"
    /\ \E idx \in KeyInputs, pressed \in BOOLEAN :
          Becomes(set_key(Machine, idx, pressed))
    /\ UNCHANGED <<overflow_checks, phase, draw_flag, loaded, instruction, prev>>

\* The renderer calls Screen::draw of display.rs: it returns at once when the
\* flag is down, and otherwise presents the pixels and lowers the flag.
\* Nothing in vm.rs holds or raises this flag: VM::display is the Screen of
\* vm.rs, which has pixels only.
Draw ==
    /\ phase = "running"
    /\ panic = "none"
    /\ loaded \in RenderedRoms
    /\ draw_flag
    /\ draw_flag' = FALSE
    /\ UNCHANGED <<ram, registers, i, dt, st, pc, sp, stack, display, keys, panic,
                   overflow_checks, phase, loaded, instruction, prev>>

Next == LoadRom \/ Step \/ TickTimers \/ SetKey \/ Draw

Spec == Init /\ [][Next]_vars

\* The machine run on the ROMs that wait for a key, by a driver whose loop
\* calls decode again and again for as long as the machine has not panicked
LoadKeyWaitRom ==
    /\ phase = "constructed"
    /\ panic = "none"
    /\ \E rom \in KeyWaitRoms :
          /\ loaded' = rom
          /\ Becomes(load_rom(Machine, rom))
    /\ phase' = "running"
    /\ UNCHANGED <<overflow_checks, draw_flag, instruction, prev>>

KeyWaitNext == LoadKeyWaitRom \/ Step \/ TickTimers \/ SetKey

KeyWaitSpec == Init /\ [][KeyWaitNext]_vars /\ WF_vars(Step)

-----------------------------------------------------------------------------
(* The claims.                                                             *)

\* The fields of the opcode the last decode fetched
n1 == instruction \div 4096
nnn == instruction % 4096
n2 == (instruction \div 256) % 16
n3 == (instruction \div 16) % 16
n4 == instruction % 16
kk == instruction % 256

\* Whether opcode op is an instruction that is not a jump, call, return,
\* skip or key-wait
IsPlain(op) ==
    \/ op = \H00E0
    \/ op \div 4096 \in {6, 7, 10, 12, 13}
    \/ op \div 4096 = 8 /\ op % 16 \in {0, 1, 2, 3, 4, 5, 6, 7, 14}
    \/ op \div 4096 = 15 /\ op % 256 \in {\H07, \H15, \H18, \H1E, \H29, \H33, \H55, \H65}

\* C1: a step reads the opcode ram[pc] * 256 + ram[pc + 1] and advances pc by
\* 2 before the handler runs: a completed step of 1nnn leaves pc = nnn, and a
\* completed step of an instruction that is not a jump, call, return, skip or
\* key-wait leaves pc two past its value before the step.
C1_FetchAdvancesBeforeDispatch ==
    [][ (Step /\ panic' = "none") =>
          LET op == ram[pc] * 256 + ram[pc + 1] IN
          /\ instruction' = op
          /\ (op \div 4096 = 1) => (pc' = op % 4096)
          /\ IsPlain(op) => (pc' = pc + 2) ]_vars

\* C1, reached: the jump 1206 fetched at 0x208 has left pc at 0x206
C1_Witness ==
    /\ instruction = \H1206
    /\ prev.pc = \H208
    /\ pc = \H206
    /\ panic = "none"

\* C2: 8xy4 sets VF = 1 iff Vx + Vy exceeds 255, else VF = 0, and for x # F
\* leaves (Vx + Vy) mod 256 in Vx.
C2_AddSetsCarry ==
    (n1 = 8 /\ n4 = 4) =>
        LET sum == prev.registers[n2] + prev.registers[n3] IN
        /\ registers[15] = (IF sum > 255 THEN 1 ELSE 0)
        /\ (n2 # 15) => (registers[n2] = sum % 256)

\* C3: 8xy5 completes without error for all Vx, Vy, sets VF = 1 iff Vx > Vy
\* before the subtraction, else VF = 0, and for x # F leaves (Vx - Vy) mod 256
\* in Vx.
C3_SubWraps ==
    (n1 = 8 /\ n4 = 5) =>
        LET vx == prev.registers[n2]
            vy == prev.registers[n3]
        IN  /\ panic = "none"
            /\ registers[15] = (IF vx > vy THEN 1 ELSE 0)
            /\ (n2 # 15) => (registers[n2] = (vx - vy) % 256)

\* C4: 7xkk completes without error for all Vx, kk, leaves (Vx + kk) mod 256
\* in Vx, and leaves VF as it was when x # F.
C4_AddImmediateWraps ==
    (n1 = 7) =>
        /\ panic = "none"
        /\ registers[n2] = (prev.registers[n2] + kk) % 256
        /\ (n2 # 15) => (registers[15] = prev.registers[15])

\* C5: after 8xy6, for every x including F, VF is bit 0 of Vx as it was
\* before the shift, and for x # F, Vx is its former value divided by 2.
C5_ShiftRightFlag ==
    (n1 = 8 /\ n4 = 6) =>
        /\ registers[15] = prev.registers[n2] % 2
        /\ (n2 # 15) => (registers[n2] = prev.registers[n2] \div 2)

\* C6: one call of tick_timers with DT > 0 leaves DT one less than it was.
C6_TickDecrementsDelayByOne ==
    [][ TickTimers => ((dt > 0) => (dt' = dt - 1)) ]_vars

\* C7: one call of tick_timers with ST > 0 leaves ST one less than it was,
\* whatever DT is.
C7_TickDecrementsSoundByOne ==
    [][ TickTimers => ((st > 0) => (st' = st - 1)) ]_vars

\* C8: tick_timers never wraps a timer: neither timer grows, a timer that is
\* 0 or 1 before the call is 0 after it, and no error is raised.
C8_TickFloorsAtZero ==
    [][ TickTimers =>
          /\ dt' <= dt
          /\ st' <= st
          /\ (dt \in {0, 1}) => (dt' = 0)
          /\ (st \in {0, 1}) => (st' = 0)
          /\ panic' = "none" ]_vars

\* C9: 00EE with no call outstanding raises an error, leaves the stack
\* pointer at its empty value and does not set pc from a stack slot.
C9_ReturnOnEmptyStackIsAnError ==
    (instruction = \H00EE /\ prev.sp = 0) =>
        /\ panic # "none"
        /\ sp = 0
        /\ pc = prev.pc + 2

\* C10: a call made with fewer than 16 calls outstanding succeeds: it sets
\* pc to nnn, makes one more call outstanding and records its return address
\* in one stack slot, the others unchanged; a call made with 16 outstanding
\* fails with an error and leaves the stack as it was.
C10_SixteenNestedCalls ==
    (n1 = 2) =>
        /\ (prev.sp \in 0..15) =>
              /\ panic = "none"
              /\ pc = nnn
              /\ sp = prev.sp + 1
              /\ \E slot \in 0..15 :
                    /\ stack[slot] = prev.pc + 2
                    /\ \A other \in 0..15 \ {slot} : stack[other] = prev.stack[other]
        /\ (prev.sp = 16) =>
              /\ panic # "none"
              /\ stack = prev.stack


\* The opcodes that match no row of the decode table
Unmatched(op) ==
    LET a == op \div 4096
        d == op % 16
        b == op % 256
    IN  \/ a = 5 /\ d # 0
        \/ a = 8 /\ d \in {8, 9, 10, 11, 12, 13, 15}
        \/ a = 9 /\ d # 0
        \/ a = 14 /\ b \notin {\H9E, \HA1}
        \/ a = 15 /\ b \notin {\H07, \H0A, \H15, \H18, \H1E, \H29, \H33, \H55, \H65}

\* C11: a step whose opcode matches no row of the decode table ends in the
\* decode failure and never completes, and a step of any other opcode never
\* ends in the decode failure.
C11_UnmatchedOpcodeFailsDecode ==
    (instruction # -1) => ((panic = "unimplemented") <=> Unmatched(instruction))

C11_Witness ==
    /\ instruction = \H8128
    /\ panic = "unimplemented"
    /\ prev.pc = ROM_START

\* C12: a load of a ROM longer than 3584 bytes ends in an error and leaves
\* every byte of memory as it was; a load of a ROM of 3584 bytes or fewer
\* raises no error.
C12_OversizedRomIsRejected ==
    [][ LoadRom =>
          IF Len(loaded') > 3584
          THEN panic' # "none" /\ ram' = ram
          ELSE panic' = "none" ]_vars

C12_Witness ==
    /\ Len(loaded) = 3585
    /\ phase = "running"
    /\ panic = "index"
    /\ instruction = \HF033
    /\ ram[\H302] = 5

\* C13: after a load of a ROM of L <= 3584 bytes the byte at 0x200 + k is
\* rom[k] for every 0 <= k < L, and every other byte of memory, the program
\* counter, the registers, I, the stack, the timers, the keypad and the
\* display are as they were.
C13_LoadCopiesVerbatim ==
    [][ (LoadRom /\ Len(loaded') <= 3584) =>
          /\ \A k \in 1..Len(loaded') : ram'[512 + k - 1] = loaded'[k]
          /\ ram' = [a \in 512..(512 + Len(loaded') - 1) |-> ram'[a]] @@ ram
          /\ UNCHANGED <<registers, i, dt, st, pc, sp, stack, display, keys>> ]_vars

C13_Witness ==
    /\ loaded = <<\H12, \H00>>
    /\ ram[\H200] = \H12 /\ ram[\H201] = \H00
    /\ ram[\H202] = \H60 /\ ram[\H203] = \H05
    /\ ram[\H302] = 5
    /\ registers[0] = 5
    /\ keys[1]
    /\ panic = "none"

\* The opcode the next decode fetches
Fetched == fetch(Machine)

\* C14: a step of Fx55 with I + x inside memory stores V0..Vx inclusive,
\* ram[I + k] = Vk for every 0 <= k <= x, and changes no other byte.
C14_StoreWritesV0ThroughVx ==
    [][ (Step /\ Fetched \div 4096 = 15 /\ Fetched % 256 = \H55) =>
          LET x == (Fetched \div 256) % 16 IN
          (i + x <= 4095) =>
              /\ panic' = "none"
              /\ \A k \in 0..x : ram'[i + k] = registers[k]
              /\ ram' = [a \in i..(i + x) |-> ram'[a]] @@ ram ]_vars

\* C15: a step of Fx65 with I + x inside memory completes without error,
\* sets Vk = ram[I + k] for every 0 <= k <= x, and leaves V(x+1)..VF and
\* the memory as they were.
C15_LoadReadsMemory ==
    [][ (Step /\ Fetched \div 4096 = 15 /\ Fetched % 256 = \H65) =>
          LET x == (Fetched \div 256) % 16 IN
          (i + x <= 4095) =>
              /\ panic' = "none"
              /\ \A k \in 0..x : registers'[k] = ram[i + k]
              /\ \A k \in (x + 1)..15 : registers'[k] = registers[k]
              /\ ram' = ram ]_vars

\* C16: after a step of Fx29, I is 5 * (Vx mod 16), so that ram[I..I+4] is
\* the glyph of that digit.
C16_FontAddressOfDigit ==
    (instruction # -1 /\ n1 = 15 /\ kk = \H29 /\ panic = "none") =>
        LET d == prev.registers[n2] % 16 IN
        /\ i = 5 * d
        /\ \A r \in 0..4 : ram[i + r] = SPRITES[5 * d + r + 1]

\* C17: a step of Fx33 with I <= 0xFFD stores at ram[I], ram[I+1], ram[I+2]
\* three digits a, b, c in 0..9 with 100a + 10b + c = Vx (1, 5, 7 for 157),
\* and leaves Vx, I and every other byte of memory as they were.
C17_BcdDigits ==
    [][ (Step /\ Fetched \div 4096 = 15 /\ Fetched % 256 = \H33 /\ i <= \HFFD) =>
          LET v == registers[(Fetched \div 256) % 16]
              a == ram'[i]
              b == ram'[i + 1]
              c == ram'[i + 2]
          IN  /\ panic' = "none"
              /\ {a, b, c} \subseteq 0..9
              /\ 100 * a + 10 * b + c = v
              /\ (v = 157) => (<<a, b, c>> = <<1, 5, 7>>)
              /\ registers' = registers
              /\ i' = i
              /\ ram' = [k \in i..(i + 2) |-> ram'[k]] @@ ram ]_vars

C17_Witness ==
    /\ instruction = \HF333
    /\ prev.registers[3] = 157
    /\ registers[3] = 157
    /\ i = \H300
    /\ ram[\H300] = 1 /\ ram[\H301] = 5 /\ ram[\H302] = 7
    /\ panic = "none"

\* C18: a step of Fx0A taken while no key is pressed returns with the program
\* counter at its value before the step and with the registers, I, the
\* memory, the stack, the timers and the display as they were, so that the
\* next step fetches the same Fx0A.
C18_KeyWaitRepeats ==
    [][ (Step /\ Fetched \div 4096 = 15 /\ Fetched % 256 = \H0A
              /\ \A k \in 0..15 : ~keys[k]) =>
          /\ panic' = "none"
          /\ pc' = pc
          /\ UNCHANGED <<registers, i, ram, stack, sp, dt, st, display>>
          /\ Fetched' = Fetched ]_vars

C18_Witness ==
    /\ instruction = \HF30A
    /\ prev.pc = \H202
    /\ pc = \H202
    /\ registers[10] = 7 /\ registers[3] = 0
    /\ \A k \in 0..15 : ~keys[k]
    /\ panic = "none"

\* C19: after a step of Dxyn, VF is 1 if and only if the draw erased a pixel,
\* that is, XORed a sprite bit 1 onto a pixel that was set; otherwise VF is
\* 0, whatever it held before, and a later sprite bit does not reset it.
C19_CollisionFlag ==
    [][ (Step /\ Fetched \div 4096 = 13 /\ panic' = "none") =>
          (registers'[15] =
              IF \E y \in 0..31, x \in 0..63 : display[y][x] /\ ~display'[y][x]
              THEN 1 ELSE 0) ]_vars

C19_Witness ==
    /\ instruction = \HD125
    /\ prev.i = \H005
    /\ prev.registers[1] = 0 /\ prev.registers[15] = 0
    /\ registers[15] = 1
    /\ ~display[0][2] /\ ~display[4][1]
    /\ display[4][2] /\ display[4][3]
    /\ panic = "none"

\* C20: a completed step of Dxyn followed at once by the same Dxyn, with I,
\* the registers and the sprite bytes as the first draw left them, returns
\* the display to what it was before the first draw; a one-row sprite 0xFF
\* on eight clear pixels sets the eight with VF = 0, and the second draw
\* clears them with VF = 1.
C20_DrawTwiceRestores ==
    [][ (Step /\ Fetched \div 4096 = 13 /\ panic' = "none") =>
          LET x == (Fetched \div 256) % 16
              y == (Fetched \div 16) % 16
              n == Fetched % 16
              again == drw_vx_vy_n(Machine', x, y, n)
              toggled == { p \in (0..31) \X (0..63) :
                             display[p[1]][p[2]] # display'[p[1]][p[2]] }
          IN  /\ i' = i /\ ram' = ram
              /\ again.panic = "none"
              /\ again.display = display
              /\ (n = 1 /\ ram[i] = \HFF /\ \A p \in toggled : ~display[p[1]][p[2]]) =>
                    /\ Cardinality(toggled) = 8
                    /\ \A p \in toggled : display'[p[1]][p[2]]
                    /\ registers'[15] = 0
                    /\ again.registers[15] = 1 ]_vars

C20_Witness ==
    /\ instruction = \HD121
    /\ prev.pc = \H208 /\ pc = \H20A
    /\ prev.registers[1] = 60 /\ prev.registers[2] = 31
    /\ prev.registers[15] = 0
    /\ registers[15] = 1
    /\ display = ScreenNew
    /\ panic = "none"

\* C21: a step of Dxyn whose sprite lies inside the memory completes, and it
\* toggles exactly the pixels ((Vx mod 64 + b) mod 64, (Vy mod 32 + r) mod 32)
\* of the sprite bits 1 (row r, bit b, most significant first), Vx and Vy
\* being read after VF is reset: pixels past an edge come back on the
\* opposite edge, and every pixel touched is inside 0..63 x 0..31.
C21_DrawWraps ==
    [][ (Step /\ Fetched \div 4096 = 13 /\ i + (Fetched % 16) <= 4096) =>
          LET x == (Fetched \div 256) % 16
              y == (Fetched \div 16) % 16
              n == Fetched % 16
              vx == IF x = 15 THEN 0 ELSE registers[x]
              vy == IF y = 15 THEN 0 ELSE registers[y]
              ones == { rb \in (0..(n - 1)) \X (0..7) :
                          (ram[i + rb[1]] \div (2 ^ (7 - rb[2]))) % 2 = 1 }
              toggled == { <<((vy % 32) + rb[1]) % 32, ((vx % 64) + rb[2]) % 64>> :
                              rb \in ones }
              rows == { p[1] : p \in toggled }
          IN  /\ panic' = "none"
              /\ toggled \subseteq (0..31) \X (0..63)
              /\ \A p \in toggled : display'[p[1]][p[2]] # display[p[1]][p[2]]
              /\ \A yy \in (0..31) \ rows : display'[yy] = display[yy]
              /\ \A yy \in rows, xx \in 0..63 :
                    (<<yy, xx>> \notin toggled) => (display'[yy][xx] = display[yy][xx]) ]_vars

C21_Witness ==
    /\ instruction = \HD121
    /\ prev.pc = \H206
    /\ prev.registers[1] = 60 /\ prev.registers[2] = 0
    /\ \A xx \in 0..63 : display[0][xx] <=> (xx >= 60 \/ xx <= 3)
    /\ \A yy \in 1..31, xx \in 0..63 : ~display[yy][xx]
    /\ panic = "none"

\* C22: every completed step of 00E0 or Dxyn leaves the needs-redraw flag
\* set, only the renderer lowers it, and no step that changes the display
\* leaves the flag down.
C22_RedrawFlagFollowsDisplay ==
    [][ /\ (Step /\ (Fetched = \H00E0 \/ Fetched \div 4096 = 13) /\ panic' = "none")
            => draw_flag'
        /\ (Step /\ display' # display) => draw_flag'
        /\ (draw_flag /\ ~draw_flag') => Draw ]_vars

\* C23: in every reachable state the 80 bytes at 0x000..0x04F are the sixteen
\* 5-byte glyphs, in digit order, that construction put there.
C23_FontIsNeverChanged ==
    \A k \in 0..79 : ram[k] = SPRITES[k + 1]

\* C24: a completed step of 2nnn at address a puts a + 2 on top of the stack,
\* above the entries already there, and sets pc = nnn; a completed step of
\* 00EE with a call outstanding sets pc to the top entry, removes it and
\* leaves the entries below alone. So returns resume after their calls in
\* the reverse order of the calls, and k calls and k returns leave sp where
\* it was.
C24_CallReturnLifo ==
    [][ /\ (Step /\ Fetched \div 4096 = 2 /\ panic' = "none") =>
              /\ pc' = Fetched % 4096
              /\ sp' = sp + 1
              /\ stack'[sp'] = pc + 2
              /\ \A k \in 0..15 : (k # sp') => (stack'[k] = stack[k])
        /\ (Step /\ Fetched = \H00EE /\ sp \in 1..15) =>
              /\ panic' = "none"
              /\ pc' = stack[sp]
              /\ sp' = sp - 1
              /\ stack' = stack ]_vars

C24_Witness ==
    /\ instruction = \H00EE
    /\ prev.pc = \H206 /\ prev.sp = 1
    /\ pc = \H202 /\ sp = 0
    /\ stack[1] = \H202 /\ stack[2] = \H206 /\ stack[3] = \H20A
    /\ panic = "none"

\* The machine is about to execute an Fx0A
Waiting ==
    /\ phase = "running" /\ panic = "none"
    /\ Fetched \div 4096 = 15 /\ Fetched % 256 = \H0A

\* C25: a step of Fx0A taken while some key is pressed stores the index of a
\* pressed key in Vx and leaves pc at the address after the Fx0A; hence,
\* with steps taken again and again, the machine does not stay at an Fx0A
\* for ever while a key is held.
C25_KeyWaitEnds ==
    /\ [][ (Step /\ Waiting /\ \E k \in 0..15 : keys[k]) =>
              LET x == (Fetched \div 256) % 16 IN
              /\ panic' = "none"
              /\ registers'[x] \in 0..15
              /\ keys[registers'[x]]
              /\ pc' = pc + 2 ]_vars
    /\ []<>~(Waiting /\ \E k \in 0..15 : keys[k])

C25_Witness ==
    /\ instruction = \HF30A
    /\ prev.pc = \H202 /\ pc = \H204
    /\ prev.registers[3] = 0 /\ registers[3] = 15
    /\ keys[15] /\ ~keys[1]
    /\ panic = "none"

\* C26: the display changes only in a step of 00E0 or Dxyn: every other
\* step, and every load, tick_timers and set_key, leaves all 64 x 32 pixels
\* as they were; a completed step of 00E0 leaves every pixel false.
C26_OnlyClearAndDrawChangeDisplay ==
    [][ /\ (display' # display) =>
              (Step /\ (Fetched = \H00E0 \/ Fetched \div 4096 = 13))
        /\ (Step /\ Fetched = \H00E0 /\ panic' = "none") =>
              \A y \in 0..31, x \in 0..63 : ~display'[y][x] ]_vars

C26_Witness ==
    /\ loaded = RomOf(<<\HA005, \HD125, \H00E0>>)
    /\ instruction = \H00E0
    /\ prev.pc = \H204 /\ pc = \H206
    /\ \A y \in 0..31, x \in 0..63 : ~display[y][x]
    /\ panic = "none"

\* C27: a step of Fx0A taken while keys are pressed stores in Vx the smallest
\* index of a pressed key: a value in 0..15, of a key that is down, with no
\* key of a lower index down.
C27_SmallestPressedKeyWins ==
    [][ (Step /\ Waiting /\ \E k \in 0..15 : keys[k]) =>
          LET r == registers'[(Fetched \div 256) % 16] IN
          /\ r \in 0..15
          /\ keys[r]
          /\ \A j \in 0..15 : (j < r) => ~keys[j] ]_vars

C27_Witness ==
    /\ instruction = \HF00A
    /\ prev.pc = \H204 /\ pc = \H206
    /\ prev.registers[0] = 0 /\ registers[0] = 1
    /\ keys[1] /\ keys[15]
    /\ panic = "none"

\* C28: a step of Ex9E or ExA1 completes for every value of Vx, looking up a
\* key of index 0..15 (key Vx when Vx <= 15); Ex9E advances pc by an extra 2
\* exactly when that key is down, and ExA1 exactly when it is up.
C28_KeypadLookupInRange ==
    [][ (Step /\ Fetched \div 4096 = 14 /\ Fetched % 256 \in {\H9E, \HA1}) =>
          LET vx == registers[(Fetched \div 256) % 16]
              wanted == (Fetched % 256 = \H9E)
          IN  /\ panic' = "none"
              /\ \E idx \in (IF vx <= 15 THEN {vx} ELSE 0..15) :
                    pc' = pc + (IF keys[idx] = wanted THEN 4 ELSE 2) ]_vars

=============================================================================
